---- MODULE Spec2Model ----
(***************************************************************************)
(* update_chromedriver.py: resolve, download and unpack the ChromeDriver   *)
(* build that matches a Chrome version prefix.                              *)
(*                                                                         *)
(* The model follows the three functions of the script:                    *)
(*   get_platform_name, fetch_closest_chromedriver_url and                 *)
(*   download_and_update_chromedriver.                                     *)
(* The network, the disk and the host OS are the environment: every        *)
(* response, every I/O failure and the order in which a directory lists    *)
(* its entries are chosen nondeterministically.                            *)
(***************************************************************************)
EXTENDS Integers, Sequences, FiniteSets, TLC

VARIABLES
    system,          \* platform.system() of the host
    pc,              \* position of the (single-threaded) program
    version_prefix,  \* argument of the running call
    data,            \* response.json() of the manifest GET
    platform_name,   \* local of fetch_closest_chromedriver_url
    fetch_result,    \* value returned by fetch_closest_chromedriver_url
    driver_url,      \* locals of download_and_update_chromedriver
    actual_version,
    content,         \* response.content of the archive GET
    walk,            \* the (root, files) tuples os.walk yields
    driver_file,
    ret,             \* value returned by the running call
    raised,          \* exception that left the running call
    out,             \* lines printed by the running call
    requests,        \* URLs of the GETs issued by the running call
    removed,         \* os.remove(zip_path) done by the running call
    zips,            \* disk: the .zip files under the script directory
    files,           \* disk: the files under the extraction directories
    disk0            \* the disk when the running call started

vars == <<system, pc, version_prefix, data, platform_name, fetch_result,
          driver_url, actual_version, content, walk, driver_file, ret,
          raised, out, requests, removed, zips, files, disk0>>

locals == <<data, platform_name, fetch_result, driver_url, actual_version,
            content, walk, driver_file>>

(***************************************************************************)
(* Bounds of the model.                                                    *)
(***************************************************************************)
MaxEntries == 3      \* entries of a manifest
MaxDownloads == 2    \* descriptors of one chromedriver download list
MaxFiles == 2        \* members of an archive

(***************************************************************************)
(* Python values and string helpers.                                       *)
(***************************************************************************)
None == "None"
NoValue == "-"
NoData == [nodata |-> TRUE]
NoContent == [zip |-> FALSE, members |-> {}, nocontent |-> TRUE]

\* str.startswith
StartsWith(s, p) == Len(p) <= Len(s) /\ SubSeq(s, 1, Len(p)) = p

\* the `in` operator on two strings
Contains(s, sub) ==
    \E i \in 0..(Len(s) - Len(sub)) : SubSeq(s, i + 1, i + Len(sub)) = sub

\* a test that takes None for a URL
FalsyOnlyEmpty(x) == x = ""

\* not x, for the values a URL can take
Falsy(x) == x = None \/ x = ""

(***************************************************************************)
(* Exceptions: RequestException, ValueError, KeyError, RuntimeError,       *)
(* OSError and BadZipFile.  Each derives from Exception; an except clause  *)
(* catches the instances of its class.                                     *)
(***************************************************************************)
IsInstance(e, cls) == cls = "Exception" \/ e = cls

Propagate == "propagate"

(***************************************************************************)
(* get_platform_name                                                       *)
(***************************************************************************)
Systems == {"Windows", "Darwin", "Linux", "FreeBSD", "Java"}

\* the tag of the other macOS build
get_platform_name_x64(sys) ==
    IF sys = "Windows" THEN [tag |-> "win32", exc |-> None]
    ELSE IF sys = "Darwin" THEN [tag |-> "mac-x64", exc |-> None]
    ELSE IF sys = "Linux" THEN [tag |-> "linux64", exc |-> None]
    ELSE [tag |-> None, exc |-> "RuntimeError"]

get_platform_name(sys) ==
    IF sys = "Windows" THEN [tag |-> "win32", exc |-> None]
    ELSE IF sys = "Darwin" THEN [tag |-> "mac-arm64", exc |-> None]
    ELSE IF sys = "Linux" THEN [tag |-> "linux64", exc |-> None]
    ELSE [tag |-> None, exc |-> "RuntimeError"]

(***************************************************************************)
(* The manifest.  An entry is {"version": str, "downloads": {...}}; the    *)
(* downloads mapping of an old entry has no "chromedriver" key.  Every     *)
(* descriptor of a manifest carries its own URL.                           *)
(***************************************************************************)
Versions == {"128.0.1", "128.0.2", "127.9.9"}
PlatformStrs == {"linux64", "mac-arm64", "win32"}
Prefixes == {"128", "12", "129"}
Digits == <<"1", "2", "3", "4", "5", "6", "7", "8", "9">>
JsonUrl == "https://googlechromelabs.github.io/chrome-for-testing/known-good-versions-with-downloads.json"

Injective(f) == \A i, j \in DOMAIN f : f[i] = f[j] => i = j

SeqsUpTo(S, n) == UNION {[1..k -> S] : k \in 0..n}

UrlAt(i, j) == "https://dl/" \o Digits[i] \o "/" \o Digits[j] \o ".zip"

\* download lists: descriptors of distinct platforms
PlatformLists == {p \in SeqsUpTo(PlatformStrs, MaxDownloads) : Injective(p)}

DownloadsOf(i, p) ==
    [chromedriver |-> [j \in DOMAIN p |-> [platform |-> p[j], url |-> UrlAt(i, j)]]]

NoChromedriver == [chrome |-> <<>>]
NoList == <<None>>

\* manifests of at most n entries of distinct versions
ManifestsUpTo(n) ==
    {[versions |-> [i \in DOMAIN vs |->
                      [version |-> vs[i],
                       downloads |-> IF ps[i] = NoList THEN NoChromedriver
                                     ELSE DownloadsOf(i, ps[i])]]] :
        <<vs, ps>> \in {<<v, p>> \in SeqsUpTo(Versions, n)
                                      \X SeqsUpTo(PlatformLists \cup {NoList}, n) :
                           Injective(v) /\ Len(v) = Len(p)}}

Manifests == ManifestsUpTo(MaxEntries)

\* a JSON document that parses but is no manifest
NotAManifest == [timestamp |-> "2024"]

(***************************************************************************)
(* fetch_closest_chromedriver_url                                          *)
(***************************************************************************)
\* lines 59-62: the first descriptor of the list whose platform contains
\* platform_name, 0 when the inner for loop ends without one
RECURSIVE ScanDownloads(_, _, _)
ScanDownloads(downloads, plat, j) ==
    IF j > Len(downloads) THEN 0
    ELSE IF Contains(downloads[j].platform, plat) THEN j
    ELSE ScanDownloads(downloads, plat, j + 1)

\* a scan that keeps going and returns the last usable entry
RECURSIVE ScanVersionsLast(_, _, _, _)
ScanVersionsLast(versions, prefix, plat, i) ==
    IF i > Len(versions) THEN [kind |-> "not_found"]
    ELSE LET rest == ScanVersionsLast(versions, prefix, plat, i + 1)
         IN  IF rest.kind = "return" THEN rest
             ELSE IF StartsWith(versions[i].version, prefix)
             THEN IF "chromedriver" \notin DOMAIN versions[i].downloads
                  THEN [kind |-> "raise", exc |-> "KeyError"]
                  ELSE LET j == ScanDownloads(versions[i].downloads.chromedriver, plat, 1)
                       IN  IF j # 0
                           THEN [kind |-> "return",
                                 url |-> versions[i].downloads.chromedriver[j].url,
                                 version |-> versions[i].version]
                           ELSE rest
             ELSE rest

\* lines 57-63: the outer for loop from entry i on
RECURSIVE ScanVersions(_, _, _, _)
ScanVersions(versions, prefix, plat, i) ==
    IF i > Len(versions) THEN [kind |-> "not_found"]
    ELSE IF StartsWith(versions[i].version, prefix)
    THEN IF "chromedriver" \notin DOMAIN versions[i].downloads
         THEN [kind |-> "raise", exc |-> "KeyError"]
         ELSE LET j == ScanDownloads(versions[i].downloads.chromedriver, plat, 1)
              IN  IF j # 0
                  THEN [kind |-> "return",
                        url |-> versions[i].downloads.chromedriver[j].url,
                        version |-> versions[i].version]
                  ELSE ScanVersions(versions, prefix, plat, i + 1)
    ELSE ScanVersions(versions, prefix, plat, i + 1)

\* lines 64-67: the except clauses of fetch_closest_chromedriver_url
FetchHandler(e) ==
    IF IsInstance(e, "RequestException") THEN "request_error: " \o e
    ELSE IF IsInstance(e, "Exception") THEN "error: " \o e
    ELSE Propagate

\* an exception raised inside the try block of lines 49-63
FetchRaise(e) ==
    IF FetchHandler(e) = Propagate
    THEN /\ pc' = "raised"
         /\ raised' = e
         /\ UNCHANGED <<fetch_result, out>>
    ELSE /\ pc' = "fetched"
         /\ out' = Append(out, FetchHandler(e))
         /\ fetch_result' = <<None, None>>
         /\ UNCHANGED raised

\* lines 50-52: the manifest GET, raise_for_status and response.json()
FetchGet(MS) ==
    /\ pc = "fetch_get"
    /\ requests' = Append(requests, JsonUrl)
    /\ \/ \E d \in MS \cup {NotAManifest} :
            /\ data' = d
            /\ pc' = "fetch_platform"
            /\ UNCHANGED <<fetch_result, out, raised>>
       \/ \E e \in {"RequestException", "ValueError"} :
            /\ FetchRaise(e)
            /\ UNCHANGED data
    /\ UNCHANGED <<system, version_prefix, platform_name, driver_url,
                   actual_version, content, walk, driver_file, ret, removed,
                   zips, files, disk0>>

\* lines 54-55
FetchPlatform ==
    /\ pc = "fetch_platform"
    /\ LET r == get_platform_name(system)
       IN  IF r.exc = None
           THEN /\ platform_name' = r.tag
                /\ out' = Append(out, "platform")
                /\ pc' = "fetch_scan"
                /\ UNCHANGED <<fetch_result, raised>>
           ELSE /\ FetchRaise(r.exc)
                /\ UNCHANGED platform_name
    /\ UNCHANGED <<system, version_prefix, data, driver_url, actual_version,
                   content, walk, driver_file, ret, requests, removed, zips,
                   files, disk0>>

\* lines 57-63 and 68
FetchScan ==
    /\ pc = "fetch_scan"
    /\ IF "versions" \notin DOMAIN data
       THEN FetchRaise("KeyError")
       ELSE LET r == ScanVersions(data.versions, version_prefix, platform_name, 1)
            IN  CASE r.kind = "return" ->
                       /\ out' = Append(out, "found")
                       /\ fetch_result' = <<r.url, r.version>>
                       /\ pc' = "fetched"
                       /\ UNCHANGED raised
                  [] r.kind = "not_found" ->
                       /\ out' = Append(out, "not_found")
                       /\ fetch_result' = <<None, None>>
                       /\ pc' = "fetched"
                       /\ UNCHANGED raised
                  [] r.kind = "raise" -> FetchRaise(r.exc)
    /\ UNCHANGED <<system, version_prefix, data, platform_name, driver_url,
                   actual_version, content, walk, driver_file, ret, requests,
                   removed, zips, files, disk0>>

(***************************************************************************)
(* The disk.  The script directory holds chromedriver_<version>.zip and    *)
(* the directory chromedriver_<version>; a file of the latter is named by  *)
(* the directory's path, its sub-directory and its file name.              *)
(***************************************************************************)
ScriptDir == "/opt/update_chromedriver"

\* os.sep of the host
Sep(sys) == IF sys = "Windows" THEN "\\" ELSE "/"

\* os.path.join
PathJoin(sys, a, b) == a \o Sep(sys) \o b

\* lines 77-79
ZipPath(sys, version) == PathJoin(sys, ScriptDir, "chromedriver_" \o version \o ".zip")
ExtractDir(sys, version) == PathJoin(sys, ScriptDir, "chromedriver_" \o version)

\* the members an archive can hold: [dir |-> <<names>>, name |-> str]
TopDir == "chromedriver-linux64"
FileNames == {"chromedriver", "chromedriver.exe", "LICENSE.chromedriver"}
DirNames == {TopDir, "bin", "docs"}
Members ==
    {[dir |-> <<>>, name |-> "chromedriver"],
     [dir |-> <<>>, name |-> "chromedriver.exe"],
     [dir |-> <<TopDir>>, name |-> "chromedriver"],
     [dir |-> <<TopDir>>, name |-> "LICENSE.chromedriver"],
     [dir |-> <<TopDir, "bin">>, name |-> "chromedriver"],
     [dir |-> <<"docs">>, name |-> "chromedriver.exe"]}

Archives == {[zip |-> TRUE, members |-> m] :
                m \in {x \in SUBSET Members : Cardinality(x) <= MaxFiles}}

\* bytes that are no zip archive
Garbage == [zip |-> FALSE, members |-> {}]

\* the files members become under the directory top
Extracted(top, members) ==
    {[top |-> top, dir |-> m.dir, name |-> m.name] : m \in members}

(***************************************************************************)
(* os.walk(top), top-down.  The order in which a directory lists its       *)
(* entries is the file system's: ford and dord are the orders of the file  *)
(* names and of the directory names of this walk.                          *)
(***************************************************************************)
Perms(S) == {p \in [1..Cardinality(S) -> S] : Injective(p)}

IsPrefix(a, b) == Len(a) <= Len(b) /\ SubSeq(b, 1, Len(a)) = a

\* the names of S in the order of the permutation p
Sorted(S, p) == SelectSeq(p, LAMBDA n : n \in S)

RECURSIVE RootPath(_, _, _)
RootPath(sys, top, dir) ==
    IF dir = <<>> THEN top
    ELSE PathJoin(sys, RootPath(sys, top, SubSeq(dir, 1, Len(dir) - 1)), dir[Len(dir)])

RECURSIVE WalkDir(_, _, _, _)
RECURSIVE WalkDirs(_, _, _, _, _, _)
\* the tuples yielded for the directory d and, after it, for its sub-directories
\* a bottom-up walk: os.walk(top, topdown=False)
WalkDirBottomUp(F, d, ford, dord) ==
    LET names == {f.name : f \in {g \in F : g.dir = d}}
        subs == {f.dir[Len(d) + 1] :
                    f \in {g \in F : IsPrefix(d, g.dir) /\ Len(g.dir) > Len(d)}}
    IN  WalkDirs(F, d, Sorted(subs, dord), 1, ford, dord)
        \o <<[root |-> d, dirs |-> Sorted(subs, dord), files |-> Sorted(names, ford)]>>

WalkDir(F, d, ford, dord) ==
    LET names == {f.name : f \in {g \in F : g.dir = d}}
        subs == {f.dir[Len(d) + 1] :
                    f \in {g \in F : IsPrefix(d, g.dir) /\ Len(g.dir) > Len(d)}}
    IN  <<[root |-> d, dirs |-> Sorted(subs, dord), files |-> Sorted(names, ford)]>>
        \o WalkDirs(F, d, Sorted(subs, dord), 1, ford, dord)

WalkDirs(F, d, subs, k, ford, dord) ==
    IF k > Len(subs) THEN <<>>
    ELSE WalkDir(F, Append(d, subs[k]), ford, dord)
         \o WalkDirs(F, d, subs, k + 1, ford, dord)

\* os.walk of a directory that does not exist yields nothing
OsWalk(F, ford, dord) == IF F = {} THEN <<>> ELSE WalkDir(F, <<>>, ford, dord)

\* a test of the name with `in` in place of startswith
RECURSIVE ScanFilesContaining(_, _)
ScanFilesContaining(fs, m) ==
    IF m > Len(fs) THEN 0
    ELSE IF Contains(fs[m], "chromedriver") THEN m
    ELSE ScanFilesContaining(fs, m + 1)

\* lines 95-98: the inner for loop over the files of one tuple
RECURSIVE ScanFiles(_, _)
ScanFiles(fs, m) ==
    IF m > Len(fs) THEN 0
    ELSE IF StartsWith(fs[m], "chromedriver") THEN m
    ELSE ScanFiles(fs, m + 1)

\* lines 93-100: the outer for loop from tuple k on
RECURSIVE FindDriver(_, _, _, _)
FindDriver(sys, top, w, k) ==
    IF k > Len(w) THEN None
    ELSE LET m == ScanFiles(w[k].files, 1)
         IN  IF m # 0
             THEN PathJoin(sys, RootPath(sys, top, w[k].root), w[k].files[m])
             ELSE FindDriver(sys, top, w, k + 1)

(***************************************************************************)
(* download_and_update_chromedriver                                        *)
(***************************************************************************)
\* except clauses without the last, generic one
DownloadHandlerNarrow(e) ==
    IF IsInstance(e, "RequestException") THEN "download_error: " \o e
    ELSE IF IsInstance(e, "BadZipFile") THEN "bad_zip"
    ELSE Propagate

\* lines 109-114: the except clauses
DownloadHandler(e) ==
    IF IsInstance(e, "RequestException") THEN "download_error: " \o e
    ELSE IF IsInstance(e, "BadZipFile") THEN "bad_zip"
    ELSE IF IsInstance(e, "Exception") THEN "error: " \o e
    ELSE Propagate

\* an exception raised inside the try block of lines 82-108; line 115
DownloadRaise(e) ==
    IF DownloadHandler(e) = Propagate
    THEN /\ pc' = "raised"
         /\ raised' = e
         /\ UNCHANGED <<ret, out>>
    ELSE /\ pc' = "done"
         /\ out' = Append(out, DownloadHandler(e))
         /\ ret' = ""
         /\ UNCHANGED raised

\* lines 72-81; the locals of fetch_closest_chromedriver_url are gone
AfterFetch ==
    /\ pc = "fetched"
    /\ data' = NoData
    /\ platform_name' = NoValue
    /\ driver_url' = fetch_result[1]
    /\ actual_version' = fetch_result[2]
    /\ IF Falsy(fetch_result[1])
       THEN /\ out' = Append(out, "no_driver")
            /\ ret' = ""
            /\ pc' = "done"
       ELSE /\ out' = Append(out, "downloading")
            /\ pc' = "archive_get"
            /\ UNCHANGED ret
    /\ UNCHANGED <<system, version_prefix, fetch_result,
                   content, walk, driver_file, raised, requests, removed,
                   zips, files, disk0>>

\* lines 83-84: the archive GET and raise_for_status
ArchiveGet(AS) ==
    /\ pc = "archive_get"
    /\ requests' = Append(requests, driver_url)
    /\ \/ \E c \in AS \cup {Garbage} :
            /\ content' = c
            /\ pc' = "write_zip"
            /\ UNCHANGED <<ret, out, raised>>
       \/ /\ DownloadRaise("RequestException")
          /\ UNCHANGED content
    /\ UNCHANGED <<system, version_prefix, data, platform_name, fetch_result,
                   driver_url, actual_version, walk, driver_file, removed,
                   zips, files, disk0>>

\* lines 85-89: open(zip_path, 'wb') and write
WriteZip ==
    /\ pc = "write_zip"
    /\ \/ /\ zips' = zips \cup {ZipPath(system, actual_version)}
          /\ out' = out \o <<"downloaded", "extracting">>
          /\ pc' = "extract"
          /\ UNCHANGED <<ret, raised>>
       \/ \* open fails, or write fails on the file open has created
          /\ zips' \in {zips, zips \cup {ZipPath(system, actual_version)}}
          /\ DownloadRaise("OSError")
    /\ UNCHANGED <<system, version_prefix, data, platform_name, fetch_result,
                   driver_url, actual_version, content, walk, driver_file,
                   requests, removed, files, disk0>>

\* lines 90-91: zipfile.ZipFile(zip_path) and extractall(extract_dir)
Extract ==
    /\ pc = "extract"
    /\ LET top == ExtractDir(system, actual_version)
       IN  IF ~content.zip
           THEN /\ DownloadRaise("BadZipFile")
                /\ UNCHANGED files
           ELSE \/ /\ files' = files \cup Extracted(top, content.members)
                   /\ pc' = "walk"
                   /\ UNCHANGED <<ret, out, raised>>
                \/ \* the file system fails after some members are written
                   \E done \in SUBSET content.members :
                      /\ done # content.members
                      /\ files' = files \cup Extracted(top, done)
                      /\ DownloadRaise("OSError")
    /\ UNCHANGED <<system, version_prefix, data, platform_name, fetch_result,
                   driver_url, actual_version, content, walk, driver_file,
                   requests, removed, zips, disk0>>

\* lines 93-100: os.walk(extract_dir) and the search for the executable
WalkTree ==
    /\ pc = "walk"
    /\ LET top == ExtractDir(system, actual_version)
           F == {f \in files : f.top = top}
       IN  /\ \/ \E ford \in Perms(FileNames), dord \in Perms(DirNames) :
                    walk' = OsWalk(F, ford, dord)
              \/ \* scandir(extract_dir) fails: os.walk ignores the error
                 walk' = <<>>
           /\ driver_file' = FindDriver(system, top, walk', 1)
    /\ pc' = "located"
    /\ UNCHANGED <<system, version_prefix, data, platform_name, fetch_result,
                   driver_url, actual_version, content, ret, raised, out,
                   requests, removed, zips, files, disk0>>

\* a cleanup that removes the zip on both branches
CompleteSymmetric ==
    /\ pc = "located"
    /\ zips' = zips \ {ZipPath(system, actual_version)}
    /\ removed' = TRUE
    /\ IF driver_file # None
       THEN /\ out' = Append(out, "path")
            /\ ret' = driver_file
       ELSE /\ out' = Append(out, "no_file")
            /\ ret' = ""
    /\ pc' = "done"
    /\ UNCHANGED <<system, version_prefix, data, platform_name, fetch_result,
                   driver_url, actual_version, content, walk, driver_file,
                   raised, requests, files, disk0>>

\* lines 102-108
Complete ==
    /\ pc = "located"
    /\ IF driver_file # None
       THEN \/ /\ zips' = zips \ {ZipPath(system, actual_version)}
               /\ removed' = TRUE
               /\ out' = Append(out, "path")
               /\ ret' = driver_file
               /\ pc' = "done"
               /\ UNCHANGED raised
            \/ \* os.remove fails
               /\ DownloadRaise("OSError")
               /\ UNCHANGED <<zips, removed>>
       ELSE /\ out' = Append(out, "no_file")
            /\ ret' = ""
            /\ pc' = "done"
            /\ UNCHANGED <<zips, removed, raised>>
    /\ UNCHANGED <<system, version_prefix, data, platform_name, fetch_result,
                   driver_url, actual_version, content, walk, driver_file,
                   requests, files, disk0>>

(***************************************************************************)
(* Calls.                                                                  *)
(***************************************************************************)
NoLocals ==
    /\ data = NoData /\ platform_name = NoValue /\ fetch_result = <<>>
    /\ driver_url = NoValue /\ actual_version = NoValue /\ content = NoContent
    /\ walk = <<>> /\ driver_file = NoValue

Init ==
    /\ system \in Systems
    /\ pc = "idle"
    /\ version_prefix = NoValue
    /\ NoLocals
    /\ ret = NoValue
    /\ raised = None
    /\ out = <<>>
    /\ requests = <<>>
    /\ removed = FALSE
    /\ zips = {}
    /\ files = {}
    /\ disk0 = <<{}, {}>>

\* a call starts: the caller passes the prefix
Call(PS) ==
    /\ pc = "idle"
    /\ \E p \in PS : version_prefix' = p
    /\ pc' = "fetch_get"
    /\ data' = NoData /\ platform_name' = NoValue /\ fetch_result' = <<>>
    /\ driver_url' = NoValue /\ actual_version' = NoValue /\ content' = NoContent
    /\ walk' = <<>> /\ driver_file' = NoValue
    /\ ret' = NoValue
    /\ raised' = None
    /\ out' = <<>>
    /\ requests' = <<>>
    /\ removed' = FALSE
    /\ UNCHANGED <<system, zips, files, disk0>>

\* fetch_closest_chromedriver_url called on its own: line 68 returns to the caller
FetchReturn ==
    /\ pc = "fetched"
    /\ ret' = fetch_result
    /\ pc' = "done"
    /\ UNCHANGED <<system, version_prefix, locals, raised, out, requests,
                   removed, zips, files, disk0>>

\* the caller takes the result (or the exception); the next call may start
Finish ==
    /\ pc \in {"done", "raised"}
    /\ pc' = "idle"
    /\ version_prefix' = NoValue
    /\ data' = NoData /\ platform_name' = NoValue /\ fetch_result' = <<>>
    /\ driver_url' = NoValue /\ actual_version' = NoValue /\ content' = NoContent
    /\ walk' = <<>> /\ driver_file' = NoValue
    /\ ret' = NoValue
    /\ raised' = None
    /\ out' = <<>>
    /\ requests' = <<>>
    /\ removed' = FALSE
    /\ disk0' = <<zips, files>>
    /\ UNCHANGED <<system, zips, files>>

\* the calls of fetch_closest_chromedriver_url
NextLookup ==
    \/ Call(Prefixes)
    \/ FetchGet(Manifests)
    \/ FetchPlatform
    \/ FetchScan
    \/ FetchReturn
    \/ Finish

SpecLookup == Init /\ [][NextLookup]_vars

\* the manifests served to download_and_update_chromedriver: one release
Releases == {m \in ManifestsUpTo(1) :
                \A i \in DOMAIN m.versions :
                   /\ m.versions[i].version = "128.0.1"
                   /\ \A k \in DOMAIN m.versions[i].downloads :
                         Len(m.versions[i].downloads[k]) <= 1}

\* the calls of download_and_update_chromedriver, one after the other
Next ==
    \/ Call({"128", "129"})
    \/ FetchGet(Releases)
    \/ FetchPlatform
    \/ FetchScan
    \/ AfterFetch
    \/ ArchiveGet(Archives)
    \/ WriteZip
    \/ Extract
    \/ WalkTree
    \/ Complete
    \/ Finish

Spec == Init /\ [][Next]_vars

(***************************************************************************)
(* Vocabulary of the properties.                                           *)
(***************************************************************************)
Supported == {"Windows", "Darwin", "Linux"}
PlatformTags == {"win32", "mac-arm64", "linux64"}

Range(f) == {f[i] : i \in DOMAIN f}

EndsWith(s, t) == Len(t) <= Len(s) /\ SubSeq(s, Len(s) - Len(t) + 1, Len(s)) = t

\* the entries of the manifest received, none when the document has no list
Entries == IF "versions" \in DOMAIN data THEN data.versions ELSE <<>>

HasDriverList(e) == "chromedriver" \in DOMAIN e.downloads

\* the entry offers a chromedriver download for the platform tag
Offers(e, tag) ==
    /\ HasDriverList(e)
    /\ \E j \in DOMAIN e.downloads.chromedriver :
          Contains(e.downloads.chromedriver[j].platform, tag)

Usable(e, prefix, tag) == StartsWith(e.version, prefix) /\ Offers(e, tag)

\* fetch_closest_chromedriver_url has returned to its caller
LookupDone == pc = "done" /\ "versions" \in DOMAIN data /\ platform_name \in PlatformTags

(***************************************************************************)
(* C8: get_platform_name maps Windows to win32, Darwin to mac-arm64 and    *)
(* Linux to linux64, so a supported host gets exactly one of the three     *)
(* tags; on every other host it raises and no tag is ever bound.           *)
(***************************************************************************)
C8_PlatformMapping ==
    /\ platform_name # NoValue =>
          /\ platform_name \in PlatformTags
          /\ <<system, platform_name>> \in {<<"Windows", "win32">>,
                                            <<"Darwin", "mac-arm64">>,
                                            <<"Linux", "linux64">>}
    /\ pc = "fetch_scan" => platform_name # NoValue
    /\ system \notin Supported =>
          /\ get_platform_name(system).exc # None
          /\ pc # "fetch_scan"
    /\ system \in Supported => get_platform_name(system).exc = None

C8_Witness == pc = "fetch_scan" /\ system = "Darwin" /\ platform_name = "mac-arm64"

(***************************************************************************)
(* C1: on a well-formed manifest, when some entry has a version starting   *)
(* with the prefix and a chromedriver download for the platform, the       *)
(* lookup returns the version of the earliest such entry and the URL of a  *)
(* download of that entry for the platform, whatever the later entries.    *)
(***************************************************************************)
C1_FirstMatch ==
    (/\ LookupDone
     /\ \A i \in DOMAIN Entries : HasDriverList(Entries[i])
     /\ \E i \in DOMAIN Entries : Usable(Entries[i], version_prefix, platform_name))
    => LET first == CHOOSE i \in DOMAIN Entries :
                       /\ Usable(Entries[i], version_prefix, platform_name)
                       /\ \A k \in 1..(i - 1) :
                             ~Usable(Entries[k], version_prefix, platform_name)
           list == Entries[first].downloads.chromedriver
       IN  /\ ret[2] = Entries[first].version
           /\ \E j \in DOMAIN list :
                 /\ Contains(list[j].platform, platform_name)
                 /\ ret[1] = list[j].url
           /\ raised = None

\* "128.0.1" is returned although the later "128.0.2" matches as well
C1_Witness ==
    /\ LookupDone
    /\ version_prefix = "128"
    /\ Len(Entries) = 3
    /\ Entries[1].version = "127.9.9"
    /\ Entries[2].version = "128.0.1"
    /\ Entries[3].version = "128.0.2"
    /\ \A i \in 1..3 : Offers(Entries[i], platform_name)
    /\ ret[2] = "128.0.1"
    /\ ret[1] \in {d.url : d \in Range(Entries[2].downloads.chromedriver)}

(***************************************************************************)
(* C9: with the manifest received and the platform supported, the lookup   *)
(* returns (None, None) only if no entry has both a version starting with  *)
(* the prefix and a chromedriver download for the platform.                *)
(***************************************************************************)
C9_NoneOnlyIfNoUsableEntry ==
    (LookupDone /\ ret = <<None, None>>)
    => ~\E i \in DOMAIN Entries : Usable(Entries[i], version_prefix, platform_name)

(***************************************************************************)
(* Vocabulary of the properties of download_and_update_chromedriver.       *)
(***************************************************************************)
Last(q) == q[Len(q)]

TheZip == ZipPath(system, actual_version)
TheDir == ExtractDir(system, actual_version)

\* the files of the extraction directory of the running call
Here == {f \in files : f.top = TheDir}

FilePath(f) == PathJoin(system, RootPath(system, f.top, f.dir), f.name)

IsDriverName(n) == StartsWith(n, "chromedriver")

\* the name of the driver executable on the host
ExeName == IF system = "Windows" THEN "chromedriver.exe" ELSE "chromedriver"

\* lines 93-100 have run
Walked == pc = "located" \/ (pc = "done" /\ driver_file # NoValue)

\* the position of a file in the walk: tuple, then index among its files
TupleOf(f) == CHOOSE k \in DOMAIN walk : walk[k].root = f.dir
IndexOf(f) == CHOOSE m \in DOMAIN walk[TupleOf(f)].files :
                 walk[TupleOf(f)].files[m] = f.name
Before(f, g) ==
    \/ TupleOf(f) < TupleOf(g)
    \/ TupleOf(f) = TupleOf(g) /\ IndexOf(f) < IndexOf(g)

\* the (directory, file name) pairs the walk yields
Listed ==
    UNION {{<<walk[k].root, walk[k].files[m]>> : m \in DOMAIN walk[k].files} :
              k \in DOMAIN walk}

\* the walk lists every file of the directory, each once
WalkedAll ==
    /\ Listed = {<<f.dir, f.name>> : f \in Here}
    /\ \A k1, k2 \in DOMAIN walk : walk[k1].root = walk[k2].root => k1 = k2
    /\ \A k \in DOMAIN walk : Injective(walk[k].files)

\* a directory comes before its sub-directories, and the tuples of a
\* sub-tree are consecutive
TopDownDepthFirst ==
    /\ \A k1, k2 \in DOMAIN walk :
          (IsPrefix(walk[k1].root, walk[k2].root) /\ k1 # k2) => k1 < k2
    /\ \A k1, k2, k3 \in DOMAIN walk :
          (k1 < k2 /\ k2 < k3) =>
             \A kd \in DOMAIN walk :
                (IsPrefix(walk[kd].root, walk[k1].root)
                    /\ IsPrefix(walk[kd].root, walk[k3].root))
                => IsPrefix(walk[kd].root, walk[k2].root)

ErrorLine(l) ==
    \/ StartsWith(l, "error: ")
    \/ StartsWith(l, "request_error: ")
    \/ StartsWith(l, "download_error: ")
    \/ l = "bad_zip"

\* the manifest GET itself failed
GetFailed == out # <<>> /\ out[1] \in {"request_error: RequestException", "error: ValueError"}

AfterLine72 == pc \in {"archive_get", "write_zip", "extract", "walk", "located",
                       "done", "raised"}

(***************************************************************************)
(* C2: on a supported host no exception leaves                             *)
(* download_and_update_chromedriver, and a call in which a step failed     *)
(* (an error line was printed) returns the empty string.                   *)
(***************************************************************************)
C2_NoExceptionEscapes ==
    system \in Supported =>
       /\ pc # "raised"
       /\ raised = None
       /\ (pc = "done" /\ \E l \in Range(out) : ErrorLine(l)) => ret = ""

\* the last step, os.remove, fails after the executable was found
C2_Witness ==
    /\ system \in Supported
    /\ pc = "done"
    /\ driver_file \notin {NoValue, None}
    /\ Last(out) = "error: OSError"
    /\ ret = ""

(***************************************************************************)
(* C3: on an unsupported host, a call that gets as far as platform         *)
(* detection ends with the RuntimeError leaving the call, not with a       *)
(* returned value.                                                         *)
(***************************************************************************)
C3_UnsupportedPlatformRaises ==
    (system \notin Supported /\ pc \in {"done", "raised"} /\ ~GetFailed)
    => (pc = "raised" /\ raised = "RuntimeError")

(***************************************************************************)
(* C4: the walk of the extraction directory is top-down and depth-first,   *)
(* and the file found is the first file of that walk whose name begins     *)
(* with "chromedriver": a file of the directory, never a directory, never  *)
(* a file that only contains "chromedriver"; a successful call returns it. *)
(***************************************************************************)
C4_FirstDriverFileOfWalk ==
    Walked =>
       /\ walk # <<>> => (WalkedAll /\ TopDownDepthFirst)
       /\ driver_file # None =>
             \E f \in Here :
                /\ driver_file = FilePath(f)
                /\ IsDriverName(f.name)
                /\ \A g \in Here \ {f} : IsDriverName(g.name) => Before(f, g)
       /\ driver_file = None =>
             \A k \in DOMAIN walk : \A m \in DOMAIN walk[k].files :
                ~IsDriverName(walk[k].files[m])
       /\ (pc = "done" /\ ret # "") => (driver_file # None /\ ret = driver_file)
       /\ (pc = "done" /\ Last(out) = "path") => ret = driver_file

\* LICENSE.chromedriver is listed first and skipped; the executable one
\* level down is returned, not the one two levels down
C4_Witness ==
    /\ pc = "done"
    /\ Last(out) = "path"
    /\ Len(walk) >= 3
    /\ walk[2].root = <<TopDir>>
    /\ walk[2].files = <<"LICENSE.chromedriver", "chromedriver">>
    /\ \E f \in Here : f.dir = <<TopDir, "bin">> /\ f.name = "chromedriver"
    /\ \A f \in Here : f.dir # <<>>
    /\ ret = PathJoin(system, PathJoin(system, TheDir, TopDir), "chromedriver")

(***************************************************************************)
(* C5 as stated: when the archive holds the executable named exactly       *)
(* chromedriver (chromedriver.exe on win32), the returned path ends with   *)
(* that name.                                                              *)
(***************************************************************************)
C5_ReturnsExactExecutable ==
    (/\ pc = "done"
     /\ ret # ""
     /\ ExeName \in {m.name : m \in content.members})
    => EndsWith(ret, Sep(system) \o ExeName)

(***************************************************************************)
(* C5 amended: when the archive holds the exactly named executable, the    *)
(* returned path is a file whose name begins with "chromedriver"; it is    *)
(* the exactly named executable unless a file with another such name is    *)
(* reached first by the walk, and always when every file of the            *)
(* extraction directory whose name begins with "chromedriver" has the      *)
(* exact name.                                                             *)
(***************************************************************************)
C5_ReturnsFirstDriverNamedFile ==
    (/\ pc = "done"
     /\ ret # ""
     /\ ExeName \in {m.name : m \in content.members})
    => \E f \in Here :
          /\ ret = FilePath(f)
          /\ IsDriverName(f.name)
          /\ f.name # ExeName => \A g \in Here : g.name = ExeName => Before(f, g)
          /\ (\A g \in Here : IsDriverName(g.name) => g.name = ExeName)
                => (f.name = ExeName /\ EndsWith(ret, Sep(system) \o ExeName))

\* the archive of the property: LICENSE.chromedriver listed before chromedriver
C5_Witness ==
    /\ pc = "done"
    /\ ret # ""
    /\ {m.name : m \in content.members} = {"LICENSE.chromedriver", ExeName}
    /\ \A g \in Here : IsDriverName(g.name) => g.name = ExeName
    /\ \E k \in DOMAIN walk : walk[k].files = <<"LICENSE.chromedriver", ExeName>>
    /\ EndsWith(ret, Sep(system) \o ExeName)

(***************************************************************************)
(* C6: the zip of the call is removed exactly when the call returns a      *)
(* path: after a returned path the zip is not on disk; after "no file      *)
(* found" or a corrupt archive the zip is on disk; no file of an           *)
(* extraction directory is ever deleted.                                   *)
(***************************************************************************)
C6_AsymmetricCleanup ==
    /\ disk0[2] \subseteq files
    /\ removed => pc = "done"
    /\ pc = "done" =>
          /\ removed <=> ret # ""
          /\ ret # "" => TheZip \notin zips
          /\ Last(out) \in {"no_file", "bad_zip"} =>
                (TheZip \in zips /\ ret = "" /\ ~removed)

\* extraction worked, nothing named chromedriver...: the zip stays
C6_Witness ==
    /\ pc = "done"
    /\ Last(out) = "no_file"
    /\ content.members # {}
    /\ Here # {}
    /\ TheZip \in zips
    /\ ret = ""

(***************************************************************************)
(* C7: when no entry of the manifest has a version starting with the       *)
(* prefix, the lookup returns (None, None) without raising and, on a       *)
(* supported host, prints "not found"; after a (None, None) lookup         *)
(* download_and_update_chromedriver returns "" having issued no GET but    *)
(* the manifest's and having left the disk as it was.                      *)
(***************************************************************************)
C7_NoPrefixMatch ==
    /\ (/\ pc \in {"fetched", "raised"}
        /\ "versions" \in DOMAIN data
        /\ \A i \in DOMAIN Entries : ~StartsWith(Entries[i].version, version_prefix))
       => /\ pc = "fetched"
          /\ fetch_result = <<None, None>>
          /\ raised = None
          /\ system \in Supported => Last(out) = "not_found"
    /\ (AfterLine72 /\ fetch_result = <<None, None>>)
       => /\ pc = "done"
          /\ ret = ""
          /\ requests = <<JsonUrl>>
          /\ <<zips, files>> = disk0

\* a manifest with a release, none of the prefix: an earlier call has left files
C7_Witness ==
    /\ pc = "done"
    /\ version_prefix = "129"
    /\ out = <<"platform", "not_found", "no_driver">>
    /\ fetch_result = <<None, None>>
    /\ ret = ""
    /\ files # {}

(***************************************************************************)
(* C10: a call whose archive extracts and holds no file whose name begins  *)
(* with "chromedriver" returns the empty string, whatever earlier calls    *)
(* have left on disk.                                                      *)
(***************************************************************************)
C10_IndependentOfEarlierRuns ==
    (/\ pc = "done"
     /\ driver_file # NoValue
     /\ \A m \in content.members : ~IsDriverName(m.name))
    => ret = ""

====
